---- MODULE Spec2Model ----
(***************************************************************************)
(* A model of PCTWrap: the per-problem record PCTProblem                   *)
(* (src/PCTWrap/problems.py) and the batch loader PCTWrapper               *)
(* (src/PCTWrap/wrapper.py).                                               *)
(*                                                                         *)
(* Floating-point values are modelled as extended rationals: a value is a  *)
(* record [k, n, d] whose kind k is "fin" (the rational n/d in lowest      *)
(* terms, d > 0), "pinf", "ninf", "nan", "fmax"/"fmin" (the largest and    *)
(* the most negative finite double, which only np.nan_to_num produces) or  *)
(* "pbig"/"nbig" (PyCUTEst's bound sentinels +1e20 and -1e20).  Rounding   *)
(* of binary64 arithmetic is not modelled.  scipy's Bounds,                 *)
(* LinearConstraint and NonlinearConstraint are containers of the arrays   *)
(* they are given.                                                         *)
(***************************************************************************)
EXTENDS Integers, Sequences, FiniteSets

VARIABLES
    problem,     \* self._problem: the wrapped provider problem (raw data)
    st,          \* position of the record: "raw", "ready" or "error"
    fields,      \* name, n, x0, bounds, constraints of the record
    objectives,  \* self.objectives
    residuals,   \* self.residuals
    last,        \* the last call on the record: its inputs and its outcome
    self_problems,  \* PCTWrapper.problems: the catalog
    imp          \* the import_problems call in progress: its arguments,
                 \* its locals and its position

recvars == <<problem, st, fields, objectives, residuals, last>>
wvars == <<self_problems, imp>>
vars == <<problem, st, fields, objectives, residuals, last, self_problems,
          imp>>

----------------------------------------------------------------------------
(* Values *)

RECURSIVE Gcd(_, _)
Gcd(a, b) == IF b = 0 THEN a ELSE Gcd(b, a % b)

AbsInt(i) == IF i < 0 THEN -i ELSE i

Fin(num, den) ==
    LET g == Gcd(AbsInt(num), den)
    IN  [k |-> "fin", n |-> num \div g, d |-> den \div g]

NaN  == [k |-> "nan",  n |-> 0, d |-> 1]
PInf == [k |-> "pinf", n |-> 0, d |-> 1]
NInf == [k |-> "ninf", n |-> 0, d |-> 1]
FMax == [k |-> "fmax", n |-> 0, d |-> 1]
FMin == [k |-> "fmin", n |-> 0, d |-> 1]
PBig == [k |-> "pbig", n |-> 0, d |-> 1]
NBig == [k |-> "nbig", n |-> 0, d |-> 1]
Zero == Fin(0, 1)
One  == Fin(1, 1)

IsNaN(v) == v.k = "nan"
IsFin(v) == v.k = "fin"

Rank(v) ==
    CASE v.k = "ninf" -> 0 - 3
      [] v.k = "fmin" -> 0 - 2
      [] v.k = "nbig" -> 0 - 1
      [] v.k = "fin"  -> 0
      [] v.k = "pbig" -> 1
      [] v.k = "fmax" -> 2
      [] v.k = "pinf" -> 3

\* a < b, a <= b, a > b as IEEE comparisons: false when either side is NaN
Lt(a, b) ==
    /\ ~IsNaN(a)
    /\ ~IsNaN(b)
    /\ \/ Rank(a) < Rank(b)
       \/ IsFin(a) /\ IsFin(b) /\ a.n * b.d < b.n * a.d
Le(a, b) == ~IsNaN(a) /\ ~IsNaN(b) /\ (a = b \/ Lt(a, b))
Gt(a, b) == Lt(b, a)

Neg(v) ==
    CASE v.k = "fin"  -> Fin(0 - v.n, v.d)
      [] v.k = "pinf" -> NInf
      [] v.k = "ninf" -> PInf
      [] v.k = "fmax" -> FMin
      [] v.k = "fmin" -> FMax
      [] v.k = "pbig" -> NBig
      [] v.k = "nbig" -> PBig
      [] OTHER        -> NaN

\* np.abs
NpAbs(v) == IF IsNaN(v) THEN NaN ELSE IF Lt(v, Zero) THEN Neg(v) ELSE v

\* a + b on finite, infinite and NaN operands
Add(a, b) ==
    CASE IsNaN(a) \/ IsNaN(b)          -> NaN
      [] IsFin(a) /\ IsFin(b)          -> Fin(a.n * b.d + b.n * a.d, a.d * b.d)
      [] IsFin(a)                      -> b
      [] IsFin(b)                      -> a
      [] a = b                         -> a
      [] OTHER                         -> NaN

\* a * b on finite, infinite and NaN operands
Mul(a, b) ==
    CASE IsNaN(a) \/ IsNaN(b)          -> NaN
      [] IsFin(a) /\ IsFin(b)          -> Fin(a.n * b.n, a.d * b.d)
      [] a = Zero \/ b = Zero          -> NaN
      [] Lt(a, Zero) = Lt(b, Zero)     -> PInf
      [] OTHER                         -> NInf

\* a / b for a divisor b >= 1 (the only divisor the program uses)
Div(a, b) ==
    CASE IsNaN(a) \/ IsNaN(b)          -> NaN
      [] IsFin(a) /\ IsFin(b)          -> Fin(a.n * b.d, a.d * b.n)
      [] IsFin(a)                      -> Zero
      [] IsFin(b)                      -> a
      [] OTHER                         -> NaN

\* np.max of two values: NaN propagates
NpMax2(a, b) ==
    IF IsNaN(a) \/ IsNaN(b) THEN NaN ELSE IF Lt(a, b) THEN b ELSE a

\* np.max(arr, initial=init) over a sequence
RECURSIVE NpMax(_, _)
NpMax(arr, init) ==
    IF arr = <<>> THEN init
    ELSE NpMax(Tail(arr), NpMax2(init, Head(arr)))

\* arr[mask] for a boolean mask of the same length
RECURSIVE Select(_, _)
Select(arr, mask) ==
    IF arr = <<>> THEN <<>>
    ELSE IF Head(mask) THEN <<Head(arr)>> \o Select(Tail(arr), Tail(mask))
         ELSE Select(Tail(arr), Tail(mask))

\* np.abs and unary minus on an array
AbsAll(s) == [i \in 1..Len(s) |-> NpAbs(s[i])]
NegAll(s) == [i \in 1..Len(s) |-> Neg(s[i])]

\* mask.any(), mask.all(), np.logical_not, np.logical_and (equal lengths)
MaskAny(mask) == \E i \in 1..Len(mask) : mask[i]
MaskAll(mask) == \A i \in 1..Len(mask) : mask[i]
LogicalNot(mask) == [i \in 1..Len(mask) |-> ~mask[i]]

\* numpy broadcasting of two one-dimensional shapes
BcOk(la, lb) == la = lb \/ la = 1 \/ lb = 1
BcLen(la, lb) == IF la = 1 THEN lb ELSE la
Bc(mask, len) == [i \in 1..len |-> mask[IF Len(mask) = 1 THEN 1 ELSE i]]
LogicalAnd(a, b) ==
    LET len == BcLen(Len(a), Len(b))
    IN  [i \in 1..len |-> Bc(a, len)[i] /\ Bc(b, len)[i]]

----------------------------------------------------------------------------
(* Bounds and input sets of the record model *)

MaxM == 1        \* a provider problem has 0..MaxM constraints
MaxHist == 2     \* obj is called while the history holds fewer entries

\* raw objective values, gradient components and constraint values the
\* provider returns; baseline constraint values at the zero vector
\* (an objective value paired with a gradient component: every kind of
\* value occurs on either side)
FGVals == {<<Fin(2, 1), Fin(7, 1)>>, <<NaN, PInf>>, <<PInf, NInf>>,
           <<NInf, NaN>>}
CVals == {Fin(0 - 1, 1), Fin(1, 200)}
BaselineVals == {Zero, Fin(0 - 4, 1)}
BoundPairs == {<<NBig, PBig>>, <<Zero, PBig>>}

BoolSeqs(len) == [1..len -> BOOLEAN]
FlagArrays(maxlen) == UNION {BoolSeqs(len) : len \in 0..maxlen}

Zeros(len) == [i \in 1..len |-> Zero]

\* The structure a provider problem exposes (pycutest.CUTEstProblem): name,
\* n, m, x0, bl, bu, is_linear_cons, is_eq_cons, and cons(zeros(n),
\* gradient=True) as the baseline c0 and the Jacobian J0.  The provider is a
\* function of the point: fx, gx and cx are its objective value, gradient
\* and constraint values at the point x the record is evaluated at.
Shape(m, b, lin, eq, c0) ==
    [name |-> "P", n |-> 1, m |-> m, x0 |-> Zeros(1),
     bl |-> <<b[1]>>, bu |-> <<b[2]>>,
     is_linear_cons |-> lin, is_eq_cons |-> eq, c0 |-> c0,
     J0 |-> [i \in 1..m |-> <<Fin(i, 1)>>],
     fx |-> Zero, gx |-> <<Zero>>, cx |-> Zeros(m)]

\* every structure with up to maxm constraints, the flag arrays of any
\* length up to maxm, the variable bounds one of pairs
Shapes(maxm, pairs) ==
    UNION {
        {Shape(m, b, lin, eq, c0) :
            b \in pairs, lin \in FlagArrays(maxm),
            eq \in FlagArrays(maxm), c0 \in [1..m -> BaselineVals]} :
        m \in 0..maxm}

----------------------------------------------------------------------------
(* PCTProblem *)

NoFields == [name |-> "", n |-> 0, x0 |-> <<>>, bounds |-> <<>>,
             constraints |-> <<>>]

NoCall == [op |-> "none", exc |-> "none", gradient |-> FALSE, norm |-> FALSE,
           c |-> <<>>, retf |-> Zero, retg |-> <<>>, nobj |-> 0, nres |-> 0]

\* no import_problems call is in progress
NoAttempt == [prob |-> "", free |-> FALSE, lines |-> <<>>, called |-> FALSE,
              N |-> 0, outcome |-> "none", nprob |-> 0]
NoImport == [pc |-> "idle", n_max |-> 0, some_linear_equality |-> FALSE,
             cutest |-> <<>>, i |-> 0, problems |-> <<>>, att |-> NoAttempt]

\* problems.py 46-52: None (<<>>) when every bl <= -1e20 and every bu >= 1e20
GetBounds(p) ==
    IF /\ \A i \in 1..Len(p.bl) : Le(p.bl[i], NBig)
       /\ \A i \in 1..Len(p.bu) : Le(PBig, p.bu[i])
    THEN <<>>
    ELSE <<p.bl, p.bu>>

\* arr[mask] raises IndexError unless the mask is as long as the array
IndexOk(len, mask) == Len(mask) = len

\* problems.py 54-64: the linear group [A, lb, ub]
LinearGroupOk(p) ==
    MaskAny(p.is_linear_cons) =>
        IndexOk(p.m, p.is_linear_cons) /\ IndexOk(p.m, p.is_eq_cons)

LinearGroup(p) ==
    IF MaskAny(p.is_linear_cons)
    THEN LET bl  == p.c0
             lbl == [i \in 1..p.m |-> IF p.is_eq_cons[i] THEN Neg(bl[i])
                                      ELSE NInf]
         IN  [kind |-> "linear",
              A  |-> Select(p.J0, p.is_linear_cons),
              lb |-> Select(lbl, p.is_linear_cons),
              ub |-> NegAll(Select(bl, p.is_linear_cons)),
              idx |-> <<>>]
    ELSE \* np.array([[]]) has shape (1, 0): one row of no columns
         [kind |-> "linear", A |-> << <<>> >>, lb |-> <<>>, ub |-> <<>>,
          idx |-> <<>>]

\* problems.py 68-75: the nonlinear group, present unless every flag is set
NonlinearGroupOk(p) ==
    ~MaskAll(p.is_linear_cons) =>
        IndexOk(p.m, p.is_eq_cons) /\ IndexOk(p.m, p.is_linear_cons)

NonlinearGroup(p) ==
    LET is_nl == LogicalNot(p.is_linear_cons)
        lbn   == [i \in 1..p.m |-> IF p.is_eq_cons[i] THEN Zero ELSE NInf]
        sel   == Select(lbn, is_nl)
    IN  [kind |-> "nonlinear", A |-> <<>>, lb |-> sel,
         ub |-> Zeros(Len(sel)), idx |-> is_nl]

\* problems.py 38-77
get_constraints_ok(p) == LinearGroupOk(p) /\ NonlinearGroupOk(p)

get_constraints(p) ==
    [bounds |-> GetBounds(p),
     constraints |->
        IF MaskAll(p.is_linear_cons) THEN <<LinearGroup(p)>>
        ELSE <<LinearGroup(p), NonlinearGroup(p)>>]

\* problems.py 18-29: PCTProblem(problem); an IndexError of get_constraints
\* leaves no record
init ==
    /\ st = "raw"
    /\ IF get_constraints_ok(problem)
       THEN /\ st' = "ready"
            /\ fields' = [name |-> problem.name, n |-> problem.n,
                          x0 |-> problem.x0,
                          bounds |-> get_constraints(problem).bounds,
                          constraints |-> get_constraints(problem).constraints]
            /\ last' = [NoCall EXCEPT !.op = "init"]
       ELSE /\ st' = "error"
            /\ fields' = fields
            /\ last' = [NoCall EXCEPT !.op = "init", !.exc = "IndexError"]
    /\ objectives' = <<>>
    /\ residuals' = <<>>
    /\ UNCHANGED <<problem, wvars>>

\* problems.py 135-142: the masks are built and applied without an error
\* only if the flag arrays broadcast to the length of cons
ctr_violations_ok(p, cons) ==
    /\ BcOk(Len(p.is_linear_cons), Len(p.is_eq_cons))
    /\ BcLen(Len(p.is_linear_cons), Len(p.is_eq_cons)) = Len(cons)

\* problems.py 148-149: max(1, max(|constraints[0].ub|, initial=0))
LinearScale(cstr) == NpMax2(One, NpMax(AbsAll(cstr[1].ub), Zero))

\* problems.py 144-149
Normalize(vlt, cstr, norm_linear_violation) ==
    IF norm_linear_violation THEN Div(vlt, LinearScale(cstr)) ELSE vlt

\* a variant that normalizes after the nonlinear terms are folded in
ctr_violations_normalize_last(p, cstr, cons, norm_linear_violation) ==
    LET is_nl      == LogicalNot(p.is_linear_cons)
        is_l_eq    == LogicalAnd(p.is_linear_cons, p.is_eq_cons)
        is_l_ineq  == LogicalAnd(LogicalNot(is_l_eq), p.is_linear_cons)
        is_nl_eq   == LogicalAnd(is_nl, p.is_eq_cons)
        is_nl_ineq == LogicalAnd(LogicalNot(is_nl_eq), is_nl)
        v1 == NpMax(AbsAll(Select(cons, is_l_eq)), Zero)
        v2 == NpMax2(v1, NpMax(Select(cons, is_l_ineq), Zero))
        v3 == NpMax2(v2, NpMax(AbsAll(Select(cons, is_nl_eq)), Zero))
        v4 == NpMax2(v3, NpMax(Select(cons, is_nl_ineq), Zero))
    IN  Normalize(v4, cstr, norm_linear_violation)

\* problems.py 127-153
ctr_violations(p, cstr, cons, norm_linear_violation) ==
    LET is_nl      == LogicalNot(p.is_linear_cons)
        is_l_eq    == LogicalAnd(p.is_linear_cons, p.is_eq_cons)
        is_l_ineq  == LogicalAnd(LogicalNot(is_l_eq), p.is_linear_cons)
        is_nl_eq   == LogicalAnd(is_nl, p.is_eq_cons)
        is_nl_ineq == LogicalAnd(LogicalNot(is_nl_eq), is_nl)
        v1 == NpMax(AbsAll(Select(cons, is_l_eq)), Zero)
        v2 == NpMax2(v1, NpMax(Select(cons, is_l_ineq), Zero))
        v3 == Normalize(v2, cstr, norm_linear_violation)
        v4 == NpMax2(v3, NpMax(AbsAll(Select(cons, is_nl_eq)), Zero))
    IN  NpMax2(v4, NpMax(Select(cons, is_nl_ineq), Zero))

\* a variant that sends every non-finite component to 0
NanToNumZero(v) == IF v.k \in {"nan", "pinf", "ninf"} THEN Zero ELSE v

\* problems.py 92: np.nan_to_num on one component
NanToNum(v) ==
    CASE v.k = "nan"  -> Zero
      [] v.k = "pinf" -> FMax
      [] v.k = "ninf" -> FMin
      [] OTHER        -> v

\* problems.py 91, 95: the value appended to objectives
Recorded(f) == f

\* problems.py 96-97
NanToInf(f) == IF IsNaN(f) THEN PInf ELSE f

\* a variant without the infeasibility threshold
MeritNoThreshold(f, vlt) == Add(f, Mul(Fin(1000, 1), vlt))

\* problems.py 104-107: the residual of a constrained problem
Merit(f, vlt) ==
    IF Gt(vlt, Fin(1, 100)) THEN PInf ELSE Add(f, Mul(Fin(1000, 1), vlt))

\* problems.py 79-114: one call obj(x, gradient, norm_linear_violation).
\* The provider answers with its values at x, or raises.
obj ==
    /\ st = "ready"
    /\ Len(objectives) < MaxHist
    /\ \E gradient \in BOOLEAN, norm \in BOOLEAN :
       LET call == [NoCall EXCEPT !.op = "obj", !.gradient = gradient,
                                  !.norm = norm, !.nobj = Len(objectives),
                                  !.nres = Len(residuals)]
           rawf == problem.fx
           f    == NanToInf(rawf)
           g    == IF gradient
                   THEN [i \in 1..Len(problem.gx) |-> NanToNum(problem.gx[i])]
                   ELSE <<>>
           c    == problem.cx
       IN
       \/ \* the provider's objective evaluation raises
          /\ last' = [call EXCEPT !.exc = "obj"]
          /\ UNCHANGED <<objectives, residuals>>
       \/ /\ objectives' = Append(objectives, Recorded(rawf))
          /\ IF problem.m > 0
             THEN \/ \* the provider's constraint evaluation raises
                     /\ last' = [call EXCEPT !.exc = "cons"]
                     /\ UNCHANGED residuals
                  \/ IF ctr_violations_ok(problem, c)
                     THEN /\ residuals' = Append(residuals,
                                Merit(f, ctr_violations(problem,
                                    fields.constraints, c, norm)))
                          /\ last' = [call EXCEPT !.retf = f, !.retg = g]
                     ELSE /\ last' = [call EXCEPT !.exc = "IndexError"]
                          /\ UNCHANGED residuals
             ELSE /\ residuals' = Append(residuals, f)
                  /\ last' = [call EXCEPT !.retf = f, !.retg = g]
    /\ UNCHANGED <<problem, st, fields, wvars>>

\* problems.py 116-125: passthrough to the provider, nothing is recorded
cons ==
    /\ st = "ready"
    /\ \E raises \in BOOLEAN :
          last' = [NoCall EXCEPT !.op = "cons",
                                 !.exc = IF raises THEN "cons" ELSE "none",
                                 !.nobj = Len(objectives),
                                 !.nres = Len(residuals)]
    /\ UNCHANGED <<problem, st, fields, objectives, residuals, wvars>>

\* a variant that forgets the residuals
clear_memory_objectives_only ==
    /\ st = "ready"
    /\ objectives' = <<>>
    /\ last' = [NoCall EXCEPT !.op = "clear_memory",
                              !.nobj = Len(objectives),
                              !.nres = Len(residuals)]
    /\ UNCHANGED <<problem, st, fields, residuals, wvars>>

\* problems.py 31-36
clear_memory ==
    /\ st = "ready"
    /\ objectives' = <<>>
    /\ residuals' = <<>>
    /\ last' = [NoCall EXCEPT !.op = "clear_memory",
                              !.nobj = Len(objectives),
                              !.nres = Len(residuals)]
    /\ UNCHANGED <<problem, st, fields, wvars>>

\* The problems of the record's life: every structure without variable
\* bounds (no call reads them), with the provider's answers at x drawn from
\* the value sets
Problems ==
    {[sh EXCEPT !.fx = fg[1], !.gx = <<fg[2]>>, !.cx = c] :
        sh \in Shapes(MaxM, {<<NBig, PBig>>}), fg \in FGVals,
        c \in UNION {[1..m -> CVals] : m \in 0..MaxM}}

Init ==
    /\ problem \in {p \in Problems : Len(p.cx) = p.m}
    /\ st = "raw"
    /\ fields = NoFields
    /\ objectives = <<>>
    /\ residuals = <<>>
    /\ last = NoCall
    /\ self_problems = <<>>
    /\ imp = NoImport

Next == init \/ obj \/ cons \/ clear_memory

Spec == Init /\ [][Next]_vars

----------------------------------------------------------------------------
(* Properties of the record *)

\* both flag arrays have one entry per constraint
WellFormed(p) == Len(p.is_linear_cons) = p.m /\ Len(p.is_eq_cons) = p.m

LastOf(seq) == seq[Len(seq)]

\* the last call was obj and returned to its caller
ObjReturned == last.op = "obj" /\ last.exc = "none"

\* C1: len(objectives) == len(residuals) in every reachable state of a
\* record over a well-formed problem, also after an obj call in which the
\* provider raised.
C1_HistoriesAligned ==
    WellFormed(problem) => Len(objectives) = Len(residuals)

\* C2: when the provider's objective value is NaN, the entry an obj call
\* appends to objectives is +infinity.
C2_NaNRecordedAsInf ==
    (last.op = "obj" /\ Len(objectives) = last.nobj + 1 /\ IsNaN(problem.fx))
        => LastOf(objectives) = PInf

\* C3: on a problem with m > 0 an obj call that returns appends exactly one
\* residual: +infinity when the violation of cons(x) exceeds 1e-2, and the
\* returned objective value + 1000 * violation otherwise.
C3_Residual ==
    (ObjReturned /\ problem.m > 0) =>
        LET vlt == ctr_violations(problem, fields.constraints, problem.cx,
                                  last.norm)
        IN  /\ Len(residuals) = last.nres + 1
            /\ Gt(vlt, Fin(1, 100)) => LastOf(residuals) = PInf
            /\ ~Gt(vlt, Fin(1, 100)) =>
                  LastOf(residuals) = Add(last.retf, Mul(Fin(1000, 1), vlt))

\* C3: an obj call has returned with a violation of 1/200: the residual is
\* the objective 2 plus 5.
C3_Witness ==
    /\ ObjReturned
    /\ problem.m > 0
    /\ ctr_violations(problem, fields.constraints, problem.cx, last.norm)
          = Fin(1, 200)
    /\ LastOf(residuals) = Fin(7, 1)

\* C4: on a well-formed problem with m = 0 the two histories are equal
\* entry by entry in every reachable state.
C4_UnconstrainedHistoriesEqual ==
    (WellFormed(problem) /\ problem.m = 0) => objectives = residuals

\* C5 as stated: with the gradient requested, a NaN, +infinity or -infinity
\* component is returned as 0 and a finite one unchanged.
C5_NonFiniteToZero ==
    (ObjReturned /\ last.gradient) =>
        \A i \in 1..Len(problem.gx) :
            last.retg[i] = IF IsFin(problem.gx[i]) THEN problem.gx[i]
                           ELSE Zero

\* C5 amended: with the gradient requested, a NaN component is returned as
\* 0, +infinity as the largest finite double, -infinity as the most negative
\* finite double, and a finite component unchanged.
C5_NanToNum ==
    (ObjReturned /\ last.gradient) =>
        /\ Len(last.retg) = Len(problem.gx)
        /\ \A i \in 1..Len(problem.gx) :
            /\ IsNaN(problem.gx[i]) => last.retg[i] = Zero
            /\ problem.gx[i] = PInf => last.retg[i] = FMax
            /\ problem.gx[i] = NInf => last.retg[i] = FMin
            /\ IsFin(problem.gx[i]) => last.retg[i] = problem.gx[i]

\* C5: an obj call has returned a gradient whose +infinity component became
\* the largest finite double.
C5_Witness ==
    /\ ObjReturned
    /\ last.gradient
    /\ problem.gx[1] = PInf
    /\ last.retg[1] = FMax

\* C7: a clear_memory call leaves both histories empty and every other
\* field of the record unchanged, and a second call in a row changes
\* nothing.
C7_ClearMemory ==
    [][last'.op = "clear_memory" =>
        /\ objectives' = <<>>
        /\ residuals' = <<>>
        /\ fields' = fields
        /\ problem' = problem
        /\ st' = st
        /\ last.op = "clear_memory" =>
              objectives' = objectives /\ residuals' = residuals]_recvars

\* C7: clear_memory has emptied a history that held entries.
C7_Witness ==
    /\ last.op = "clear_memory"
    /\ last.nobj > 0
    /\ last.nres > 0
    /\ objectives = <<>>
    /\ residuals = <<>>

\* C9: constructing a record from a problem whose flag arrays do not both
\* have length m fails with an error.
C9_MalformedRejected ==
    (st # "raw" /\ ~WellFormed(problem)) => st = "error"

----------------------------------------------------------------------------
(* The violation measure on its own: ctr_violations called on the records of
   every well-formed structure, with every constraint-value vector *)

MaxCons == 2     \* the problems of this part have 0..MaxCons constraints

\* the constraint values handed to ctr_violations
VVals == {Fin(0 - 2, 1), Zero, One, Fin(3, 1)}

\* problems.py 127-153: a call ctr_violations(cons, norm_linear_violation)
\* on a fresh record (the measure reads nothing an earlier call has written)
violation ==
    /\ st = "ready"
    /\ last.op = "none"
    /\ \E c \in [1..problem.m -> VVals], norm \in BOOLEAN :
          last' = [NoCall EXCEPT
                      !.op = "ctr_violations", !.c = c, !.norm = norm,
                      !.retf = ctr_violations(problem, fields.constraints,
                                              c, norm),
                      !.nobj = Len(objectives), !.nres = Len(residuals)]
    /\ UNCHANGED <<problem, st, fields, objectives, residuals, wvars>>

\* the records PCTProblem(problem) of the well-formed structures
InitV ==
    /\ problem \in {p \in Shapes(MaxCons, BoundPairs) : WellFormed(p)}
    /\ st = "ready"
    /\ fields = [name |-> problem.name, n |-> problem.n, x0 |-> problem.x0,
                 bounds |-> get_constraints(problem).bounds,
                 constraints |-> get_constraints(problem).constraints]
    /\ objectives = <<>>
    /\ residuals = <<>>
    /\ last = NoCall
    /\ self_problems = <<>>
    /\ imp = NoImport

NextV == violation

SpecV == InitV /\ [][NextV]_vars

\* the greatest element of a finite non-empty set of values
MaxOf(S) == CHOOSE v \in S : \A w \in S : Le(w, v)

Indices(p) == 1..p.m
LinEq(p)   == {i \in Indices(p) : p.is_linear_cons[i] /\ p.is_eq_cons[i]}
LinIneq(p) == {i \in Indices(p) : p.is_linear_cons[i] /\ ~p.is_eq_cons[i]}
NlEq(p)    == {i \in Indices(p) : ~p.is_linear_cons[i] /\ p.is_eq_cons[i]}
NlIneq(p)  == {i \in Indices(p) : ~p.is_linear_cons[i] /\ ~p.is_eq_cons[i]}

\* the measure as the claim states it
StatedViolation(p, ub, c, norm) ==
    LET L == MaxOf({Zero} \cup {NpAbs(c[i]) : i \in LinEq(p)}
                          \cup {c[i] : i \in LinIneq(p)})
        d == IF norm
             THEN MaxOf({One} \cup {NpAbs(ub[j]) : j \in 1..Len(ub)})
             ELSE One
    IN  MaxOf({Div(L, d), Zero} \cup {NpAbs(c[i]) : i \in NlEq(p)}
                                \cup {c[i] : i \in NlIneq(p)})

\* C6: ctr_violations on a constraint-value vector c returns
\* max(L / d, max |c[i]| over the nonlinear equalities, max c[i] over the
\* nonlinear inequalities, 0), L the linear sub-maximum and d = max(1, max
\* |upper bound| of the linear group) when normalize_linear is set, else 1.
C6_Violation ==
    last.op = "ctr_violations" =>
        last.retf = StatedViolation(problem, fields.constraints[1].ub,
                                    last.c, last.norm)

\* C6: a normalized call in which the linear sub-maximum 3 is divided by 4
\* and the nonlinear term 1 is not.
C6_Witness ==
    /\ last.op = "ctr_violations"
    /\ last.norm
    /\ problem.is_linear_cons = <<TRUE, FALSE>>
    /\ fields.constraints[1].ub = <<Fin(4, 1)>>
    /\ last.c = <<Fin(3, 1), One>>
    /\ last.retf = One

----------------------------------------------------------------------------
(* PCTWrapper.import_problems *)

MaxLines == 2    \* the decoder prints at most MaxLines lines

\* the identifiers; import_problems is given a list of them without
\* repetition, in any order
Ids == {"ARWHEAD", "BDQRTIC"}
CutestLists ==
    {l \in UNION {[1..len -> Ids] : len \in 0..Cardinality(Ids)} :
        \A j, k \in 1..Len(l) : j # k => l[j] # l[k]}
NMaxVals == {2}
DimVals == {1, 2, 3}

\* the exceptions a load can end in: wrapper.py 201-204 catches the first
\* three; ImportError is the base class of ModuleNotFoundError
Caught == {"RuntimeError", "AttributeError", "ModuleNotFoundError"}
Exceptions == Caught \cup {"ImportError"}

\* a line of the decoder's output: PARAM=value, or a line that does not match
\* the pattern (param "")
Lines ==
    {[param |-> "N", value |-> v] : v \in DimVals}
        \cup {[param |-> "M", value |-> 2], [param |-> "", value |-> 0]}
Outputs == UNION {[1..len -> Lines] : len \in 0..MaxLines}

\* np.sort of a sequence of integers (insertion sort)
RECURSIVE Insert(_, _)
Insert(x, seq) ==
    IF seq = <<>> THEN <<x>>
    ELSE IF x <= Head(seq) THEN <<x>> \o seq
         ELSE <<Head(seq)>> \o Insert(x, Tail(seq))

RECURSIVE NpSort(_)
NpSort(seq) ==
    IF seq = <<>> THEN <<>> ELSE Insert(Head(seq), NpSort(Tail(seq)))

\* sorted(cutest): the identifiers in alphabetical order
IdRank(id) == IF id = "ARWHEAD" THEN 1 ELSE 2
IdOfRank(r) == IF r = 1 THEN "ARWHEAD" ELSE "BDQRTIC"
Sorted(cutest) ==
    LET ranks == NpSort([j \in 1..Len(cutest) |-> IdRank(cutest[j])])
    IN  [j \in 1..Len(cutest) |-> IdOfRank(ranks[j])]

\* wrapper.py 100-108: the values of the lines that match the parameter
RECURSIVE SifValues(_, _)
SifValues(lines, parameter) ==
    IF lines = <<>> THEN <<>>
    ELSE IF Head(lines).param = parameter
         THEN <<Head(lines).value>> \o SifValues(Tail(lines), parameter)
         ELSE SifValues(Tail(lines), parameter)

\* wrapper.py 78-110
get_sif_params(lines, parameter) == NpSort(SifValues(lines, parameter))

\* wrapper.py 166
HasAdmissible(dimensions, n_max) ==
    Len(dimensions) > 0 /\ dimensions[1] <= n_max

\* a variant that takes the smallest admissible value
SelectSmallest(dimensions, n_max) == dimensions[1]

\* wrapper.py 171: np.max(dimensions[dimensions <= n_max])
SelectDimension(dimensions, n_max) ==
    LET below == {dimensions[j] : j \in {k \in 1..Len(dimensions) :
                                            dimensions[k] <= n_max}}
    IN  CHOOSE v \in below : \A w \in below : w <= v

\* wrapper.py 145-157: import_problems(n_max, cutest=<list>,
\* some_linear_equality) up to the loop
import_problems ==
    /\ imp.pc = "idle"
    /\ \E n_max \in NMaxVals, sle \in BOOLEAN,
          cutest \in CutestLists :
          imp' = [pc |-> "loop", n_max |-> n_max,
                  some_linear_equality |-> sle,
                  cutest |-> Sorted(cutest), i |-> 1,
                  problems |-> <<>>, att |-> NoAttempt]
    /\ UNCHANGED <<recvars, self_problems>>

\* wrapper.py 192-200: the loaded problem py_prob is filtered and recorded
Loaded(prob, n, N, free, has_lin_eq) ==
    IF imp.some_linear_equality /\ ~has_lin_eq
    THEN imp.problems
    ELSE Append(imp.problems, [name |-> prob, n |-> n, N |-> N,
                               free |-> free])

\* wrapper.py 201-204: what an exception raised in the try block leads to
AfterException(att, exc) ==
    IF exc \in Caught
    THEN [imp EXCEPT !.i = imp.i + 1, !.att = [att EXCEPT !.outcome = exc]]
    ELSE [imp EXCEPT !.pc = "raised", !.att = [att EXCEPT !.outcome = exc]]

\* wrapper.py 158-204: one iteration of the loop, on the identifier prob.
\* The provider says whether the dimension is free (problem_properties),
\* the decoder prints its lines, and import_problem returns a problem of
\* dimension n or raises.
import_step ==
    /\ imp.pc = "loop"
    /\ imp.i <= Len(imp.cutest)
    /\ LET prob == imp.cutest[imp.i]
           att0 == [NoAttempt EXCEPT !.prob = prob,
                                     !.nprob = Len(imp.problems)]
       IN
       \/ \* the dimension is free
          \E lines \in Outputs :
             LET dimensions == get_sif_params(lines, "N")
                 att1 == [att0 EXCEPT !.free = TRUE, !.lines = lines]
             IN
             IF HasAdmissible(dimensions, imp.n_max)
             THEN LET N    == SelectDimension(dimensions, imp.n_max)
                      att2 == [att1 EXCEPT !.called = TRUE, !.N = N]
                  IN
                  \/ \E exc \in Exceptions : imp' = AfterException(att2, exc)
                  \/ \E n \in DimVals, has_lin_eq \in BOOLEAN :
                        IF n > imp.n_max
                        THEN imp' = AfterException(att2, "RuntimeError")
                        ELSE imp' = [imp EXCEPT
                                !.i = imp.i + 1,
                                !.problems = Loaded(prob, n, N, TRUE,
                                                    has_lin_eq),
                                !.att = [att2 EXCEPT !.outcome = "ok"]]
             ELSE imp' = AfterException(att1, "RuntimeError")
       \/ \* the dimension is fixed
          LET att2 == [att0 EXCEPT !.called = TRUE]
          IN
          \/ \E exc \in Exceptions : imp' = AfterException(att2, exc)
          \/ \E n \in DimVals, has_lin_eq \in BOOLEAN :
                imp' = [imp EXCEPT
                            !.i = imp.i + 1,
                            !.problems = Loaded(prob, n, 0, FALSE,
                                                has_lin_eq),
                            !.att = [att2 EXCEPT !.outcome = "ok"]]
    /\ UNCHANGED <<recvars, self_problems>>

\* wrapper.py 206: the loop is over
import_done ==
    /\ imp.pc = "loop"
    /\ imp.i > Len(imp.cutest)
    /\ self_problems' = imp.problems
    /\ imp' = [imp EXCEPT !.pc = "done"]
    /\ UNCHANGED recvars

\* a wrapper before its first import; no record is evaluated in this part
InitI ==
    /\ problem = Shape(0, <<NBig, PBig>>, <<>>, <<>>, <<>>)
    /\ st = "raw"
    /\ fields = NoFields
    /\ objectives = <<>>
    /\ residuals = <<>>
    /\ last = NoCall
    /\ self_problems = <<>>
    /\ imp = NoImport

NextI == import_problems \/ import_step \/ import_done

SpecI == InitI /\ [][NextI]_vars

----------------------------------------------------------------------------
(* Properties of the import *)

\* C8: when the load of one identifier fails, whatever the failure, the
\* import skips that identifier and goes on: it does not end in the error,
\* and the failed identifier adds no record.
C8_LoadFailureSkipped ==
    (imp.att.called /\ imp.att.outcome \in Exceptions) =>
        imp.pc # "raised" /\ Len(imp.problems) = imp.att.nprob

\* the admissible dimensions of the last attempt: the values of the
\* decoder's N lines that do not exceed n_max
Admissible ==
    {imp.att.lines[j].value :
        j \in {k \in 1..Len(imp.att.lines) :
                  /\ imp.att.lines[k].param = "N"
                  /\ imp.att.lines[k].value <= imp.n_max}}

\* C10: a problem of free dimension is loaded with the largest value of the
\* decoder's list that does not exceed n_max; with no such value it is
\* skipped and adds no record; no record of a free-dimension problem has a
\* dimension above n_max.
C10_FreeDimension ==
    /\ imp.att.free =>
          IF Admissible = {}
          THEN ~imp.att.called /\ Len(imp.problems) = imp.att.nprob
          ELSE /\ imp.att.called
               /\ imp.att.N \in Admissible
               /\ \A w \in Admissible : w <= imp.att.N
    /\ \A j \in 1..Len(imp.problems) :
          imp.problems[j].free => imp.problems[j].n <= imp.n_max
    /\ \A j \in 1..Len(self_problems) :
          self_problems[j].free => self_problems[j].n <= imp.n_max

\* C10: the decoder listed 2 and 1 for a bound of 2; the problem was loaded
\* with N = 2 and recorded.
C10_Witness ==
    /\ imp.att.free
    /\ imp.att.lines = <<[param |-> "N", value |-> 2],
                         [param |-> "N", value |-> 1]>>
    /\ imp.n_max = 2
    /\ imp.att.N = 2
    /\ imp.att.outcome = "ok"
    /\ Len(imp.problems) = imp.att.nprob + 1
    /\ imp.problems[Len(imp.problems)].n = 2

----------------------------------------------------------------------------
(* Construction on its own: PCTProblem(problem) for every structure, the
   flag arrays of any length and the baseline of any value *)

\* the structures handed to the constructor
InitC ==
    /\ problem \in Shapes(MaxCons, BoundPairs)
    /\ st = "raw"
    /\ fields = NoFields
    /\ objectives = <<>>
    /\ residuals = <<>>
    /\ last = NoCall
    /\ self_problems = <<>>
    /\ imp = NoImport

NextC == init

SpecC == InitC /\ [][NextC]_vars

\* the linear constraints, and the place of constraint i among them in the
\* original index order
LinearIndices(p) == {i \in Indices(p) : p.is_linear_cons[i]}
RowOf(p, i) == Cardinality({j \in LinearIndices(p) : j <= i})

\* the rows the linear group g holds for the linear constraints of p: the
\* Jacobian row at zero, upper = -(baseline), lower = -(baseline) for an
\* equality and -infinity for an inequality
LinearRows(p, g) ==
    \A i \in LinearIndices(p) :
       /\ g.A[RowOf(p, i)] = p.J0[i]
       /\ g.ub[RowOf(p, i)] = Neg(p.c0[i])
       /\ g.lb[RowOf(p, i)] = IF p.is_eq_cons[i] THEN Neg(p.c0[i]) ELSE NInf

\* C11: at construction, for every assignment of the two flags over the m
\* constraints, the linear group has exactly one row per linear constraint,
\* in index order, with the Jacobian row at zero as coefficients, lower =
\* upper = -(baseline) for an equality, upper = -(baseline) and lower =
\* -infinity for an inequality, and no row for a nonlinear constraint.
C11_LinearGroupRows ==
    (st = "ready" /\ WellFormed(problem)) =>
        LET g == fields.constraints[1]
            k == Cardinality(LinearIndices(problem))
        IN  /\ Len(g.A) = k
            /\ Len(g.lb) = k
            /\ Len(g.ub) = k
            /\ LinearRows(problem, g)

\* The rows are as stated whenever at least one constraint is linear.
LinearGroupRowsIfAny ==
    (st = "ready" /\ MaskAny(problem.is_linear_cons)) =>
        LET g == fields.constraints[1]
            k == Cardinality(LinearIndices(problem))
        IN  /\ Len(g.A) = k
            /\ Len(g.lb) = k
            /\ Len(g.ub) = k
            /\ LinearRows(problem, g)

\* a record of two linear constraints, an equality then an inequality
LinearGroupRowsSeen ==
    /\ st = "ready"
    /\ problem.is_linear_cons = <<TRUE, TRUE>>
    /\ problem.is_eq_cons = <<TRUE, FALSE>>
    /\ problem.c0 = <<Fin(0 - 4, 1), Zero>>
    /\ fields.constraints[1].lb = <<Fin(4, 1), NInf>>

====
